---- MODULE Spec2Model ----
(***************************************************************************)
(* Keybinding registry and dispatcher of the Silex editor                  *)
(* (keybindsPlugin.ts, latest revision: src/unnamed/part_002).             *)
(*                                                                         *)
(* Strings that the code splits, joins or concatenates are modelled as     *)
(* sequences of atoms: an atom is either the separator keySep or a word    *)
(* (a non-empty run of characters without separator).  "ctrl+d" is         *)
(* <<"ctrl", "+", "d">>, "" is << >>, "+" is <<"+">>.  A token produced by *)
(* split is a word, or "" for the empty token.                             *)
(***************************************************************************)
EXTENDS Naturals, Sequences, FiniteSets

VARIABLES keybindsMap, lastOp, events

vars == <<keybindsMap, lastOp, events>>

(***************************************************************************)
(* Bounds                                                                  *)
(***************************************************************************)
\* Largest number of entries the registry is allowed to hold in the model.
MaxBinds == 2

(***************************************************************************)
(* Program constants                                                       *)
(***************************************************************************)
keySep == "+"

eventName == "keybind"

\* enum KeyModifiers, in declaration order
KeyModifiers == <<"meta", "ctrl", "alt", "shift">>

MetaKey == KeyModifiers[1]
CtrlKey == KeyModifiers[2]
AltKey == KeyModifiers[3]
ShiftKey == KeyModifiers[4]

ScopeNames == {"GLOBAL", "GLOBAL_NO_TEXT_EDIT", "COMPONENT_SELECTION", "TEXT_EDIT"}

(***************************************************************************)
(* String primitives                                                       *)
(***************************************************************************)
\* String.prototype.toLowerCase on one word of the model's alphabet.
toLowerCaseWord(w) ==
  CASE w = "Ctrl" -> "ctrl"
    [] w = "Shift" -> "shift"
    [] w = "FOO" -> "foo"
    [] w = "D" -> "d"
    [] OTHER -> w

\* Mutant: the combination is read in the letter case it was written in.
toLowerCase_AsWritten(s) == s

\* String.prototype.toLowerCase on a string (the separator has no case).
toLowerCase(s) == [i \in DOMAIN s |-> toLowerCaseWord(s[i])]

\* The atoms of one token: none for the empty token.
tokenAtoms(t) == IF t = "" THEN << >> ELSE <<t>>

RECURSIVE splitFrom(_, _)
splitFrom(s, cur) ==
  IF s = << >> THEN <<cur>>
  ELSE IF Head(s) = keySep THEN <<cur>> \o splitFrom(Tail(s), "")
  ELSE splitFrom(Tail(s), Head(s))

\* String.prototype.split(keySep): "" gives [""], "+" gives ["", ""].
split(s) == splitFrom(s, "")

RECURSIVE join(_)
\* Array.prototype.join(keySep)
join(tokens) ==
  IF tokens = << >> THEN << >>
  ELSE IF Len(tokens) = 1 THEN tokenAtoms(tokens[1])
  ELSE tokenAtoms(tokens[1]) \o <<keySep>> \o join(Tail(tokens))

\* Array.prototype.pop: the array without its last element.
popped(arr) == SubSeq(arr, 1, Len(arr) - 1)

Range(f) == {f[i] : i \in DOMAIN f}

(***************************************************************************)
(* Map<string, KeyBind>: entries in insertion order, as Map.forEach visits *)
(* them.  set on a present key keeps the entry's position.                 *)
(***************************************************************************)
mapKeys(map) == {map[i].k : i \in DOMAIN map}

mapHas(map, k) == k \in mapKeys(map)

mapGet(map, k) == map[CHOOSE i \in DOMAIN map : map[i].k = k].v

\* Mutant: set adds an entry even when the key is already present.
mapSet_Appends(map, k, v) == Append(map, [k |-> k, v |-> v])

mapSet(map, k, v) ==
  IF mapHas(map, k)
  THEN [i \in DOMAIN map |-> IF map[i].k = k THEN [k |-> k, v |-> v] ELSE map[i]]
  ELSE Append(map, [k |-> k, v |-> v])

mapDelete(map, k) == SelectSeq(map, LAMBDA e : e.k # k)

(***************************************************************************)
(* Effects on the host: editor.trigger, event.preventDefault,              *)
(* editor.runCommand and a callback call.  A trigger also records the      *)
(* registry a listener would read at the moment of delivery.               *)
(***************************************************************************)
trigger(name, keybind, event, map) ==
  [eff |-> "trigger", name |-> name, keybind |-> keybind, event |-> event, registry |-> map]

preventDefault(keybind, event, map) ==
  [eff |-> "preventDefault", name |-> << >>, keybind |-> keybind, event |-> event, registry |-> map]

invoke(keybind, event, map) ==
  [eff |-> IF keybind[1].handler.type = "string" THEN "runCommand" ELSE "callback",
   name |-> <<keybind[1].handler.id>>, keybind |-> keybind, event |-> event, registry |-> map]

(***************************************************************************)
(* formattedModifiers                                                      *)
(***************************************************************************)
\* The switch of formattedModifiers: what one token pushes onto `ordered`;
\* nothing stands for the default branch, which throws.
pushedModifier(modifier) ==
  CASE toLowerCaseWord(modifier) = MetaKey -> <<MetaKey>>
    [] toLowerCaseWord(modifier) = CtrlKey -> <<CtrlKey>>
    [] toLowerCaseWord(modifier) = AltKey -> <<AltKey>>
    [] toLowerCaseWord(modifier) = ShiftKey -> <<ShiftKey>>
    [] OTHER -> << >>

RECURSIVE orderedFrom(_)
\* The forEach of formattedModifiers over tokens that all push.
orderedFrom(modifiers) ==
  IF modifiers = << >> THEN << >>
  ELSE pushedModifier(Head(modifiers)) \o orderedFrom(Tail(modifiers))

\* Mutant: a token of the default branch is dropped instead of thrown.
formattedModifiers_SkipsUnknown(modifiers) ==
  [thrown |-> << >>, value |-> join(orderedFrom(modifiers))]

\* [thrown: the error of the first token that hits the default branch,
\*  value: ordered.join(keySep)]
formattedModifiers(modifiers) ==
  LET bad == {i \in DOMAIN modifiers : pushedModifier(modifiers[i]) = << >>}
      first == CHOOSE i \in bad : \A j \in bad : i <= j
  IN IF bad # {}
     THEN [thrown |-> <<[kind |-> "InvalidModifier", arg |-> tokenAtoms(modifiers[first])]>>,
           value |-> << >>]
     ELSE [thrown |-> << >>, value |-> join(orderedFrom(modifiers))]

\* event.metaKey && modifiers.push(...) and so on, then join(keySep)
formattedModifiersFrom(event) ==
  join((IF event.metaKey THEN <<MetaKey>> ELSE << >>)
       \o (IF event.ctrlKey THEN <<CtrlKey>> ELSE << >>)
       \o (IF event.altKey THEN <<AltKey>> ELSE << >>)
       \o (IF event.shiftKey THEN <<ShiftKey>> ELSE << >>))

(***************************************************************************)
(* setKeyBind and removeKeyBind, as functions of the registry              *)
(***************************************************************************)
\* Mutant: the storage key leaves the modifiers out.
entryKeyOf_KeyOnly(modifiers, key) == <<keySep>> \o tokenAtoms(key)

\* modifiers + keySep + key
entryKeyOf(modifiers, key) == modifiers \o <<keySep>> \o tokenAtoms(key)

\* Mutant: every registration is announced as an addition.
lifecycleTrigger_AlwaysAdd(map, entryKey) ==
  trigger(<<eventName, ":add">>, << >>, << >>, map)

\* The notification of setKeyBind, sent before the entry is written.
lifecycleTrigger(map, entryKey) ==
  IF ~mapHas(map, entryKey)
  THEN trigger(<<eventName, ":add">>, << >>, << >>, map)
  ELSE trigger(<<eventName, ":update">>, << >>, << >>, map)

setKeyBind(map, keys, handler, scope, pd) ==
  LET splitKeys == split(toLowerCase(keys))
  IN IF Len(splitKeys) > 0
     THEN LET key == splitKeys[Len(splitKeys)]
              modifiers == formattedModifiers(popped(splitKeys))
              keyBind == [key |-> key, modifiers |-> modifiers.value, handler |-> handler,
                          scope |-> scope, preventDefault |-> pd]
              entryKey == entryKeyOf(modifiers.value, key)
          IN IF modifiers.thrown # << >>
             THEN [map |-> map, events |-> << >>, ret |-> << >>, thrown |-> modifiers.thrown]
             ELSE [map |-> mapSet(map, entryKey, keyBind),
                   events |-> <<lifecycleTrigger(map, entryKey)>>,
                   ret |-> <<keyBind>>,
                   thrown |-> << >>]
     ELSE [map |-> map, events |-> << >>, ret |-> << >>,
           thrown |-> <<[kind |-> "InvalidKeybind", arg |-> keys]>>]

\* Mutant: the notification is sent whether or not an entry was deleted.
removeKeyBind_AlwaysTriggers(map, keys) ==
  LET wasPresent == mapHas(map, keys)
      after == mapDelete(map, keys)
  IN [map |-> after,
      events |-> <<trigger(<<eventName, ":remove">>, << >>, << >>, after)>>,
      ret |-> wasPresent]

\* Mutant: the entry is reported as removed but stays in the registry.
removeKeyBind_KeepsEntry(map, keys) ==
  LET wasPresent == mapHas(map, keys)
  IN [map |-> map,
      events |-> IF wasPresent
                 THEN <<trigger(<<eventName, ":remove">>, << >>, << >>, map)>>
                 ELSE << >>,
      ret |-> wasPresent]

removeKeyBind(map, keys) ==
  LET wasPresent == mapHas(map, keys)
      after == mapDelete(map, keys)
  IN [map |-> after,
      events |-> IF wasPresent
                 THEN <<trigger(<<eventName, ":remove">>, << >>, << >>, after)>>
                 ELSE << >>,
      ret |-> wasPresent]

(***************************************************************************)
(* TriggerScopes.  editor is the host state the conditions read:           *)
(* [editing: what getEditing() returns, selected: what getSelected()       *)
(* returns]; event.target is the tag name of the target element, or "null".*)
(***************************************************************************)
\* Mutant: a null answer of getEditing() counts as a component being edited.
TEXT_EDIT_condition_NullIsEditing(editor, event) ==
  LET richEditing == editor.editing # "undefined"
      inTextInput == event.target # "null" /\ event.target \in {"TEXTAREA", "INPUT"}
  IN richEditing \/ inTextInput

\* TriggerScopes.TEXT_EDIT.condition, as a truth value (the code returns
\* richEditing || inTextInput, which is null, hence falsy, for a null target)
TEXT_EDIT_condition(editor, event) ==
  LET richEditing == editor.editing # "undefined" /\ editor.editing # "null"
      inTextInput == event.target # "null" /\ event.target \in {"TEXTAREA", "INPUT"}
  IN richEditing \/ inTextInput

\* Mutant: the scope is never gated.
GLOBAL_NO_TEXT_EDIT_condition_Always(editor, event) == TRUE

\* TriggerScopes.GLOBAL_NO_TEXT_EDIT.condition
GLOBAL_NO_TEXT_EDIT_condition(editor, event) == ~TEXT_EDIT_condition(editor, event)

\* TriggerScopes.COMPONENT_SELECTION.condition: !!editor.getSelected()
COMPONENT_SELECTION_condition(editor, event) == editor.selected # "undefined"

\* TriggerScopes.GLOBAL.condition
GLOBAL_condition(editor, event) == TRUE

\* scope.condition(editor, event)
condition(scope, editor, event) ==
  CASE scope = "GLOBAL" -> GLOBAL_condition(editor, event)
    [] scope = "GLOBAL_NO_TEXT_EDIT" -> GLOBAL_NO_TEXT_EDIT_condition(editor, event)
    [] scope = "COMPONENT_SELECTION" -> COMPONENT_SELECTION_condition(editor, event)
    [] scope = "TEXT_EDIT" -> TEXT_EDIT_condition(editor, event)

(***************************************************************************)
(* The keydown listener installed by keybindsPlugin                        *)
(***************************************************************************)
\* Mutant: the event key is compared as pressed, without lowercasing.
matches_KeyAsPressed(keybind, modifiers, editor, event) ==
  /\ keybind.modifiers = modifiers
  /\ keybind.key = event.key
  /\ condition(keybind.scope, editor, event)

\* Mutant: the pressed modifiers are not compared.
matches_IgnoresModifiers(keybind, modifiers, editor, event) ==
  /\ keybind.key = toLowerCaseWord(event.key)
  /\ condition(keybind.scope, editor, event)

\* Mutant: the scope condition is not evaluated.
matches_IgnoresScope(keybind, modifiers, editor, event) ==
  /\ keybind.modifiers = modifiers
  /\ keybind.key = toLowerCaseWord(event.key)

\* The test of the forEach callback for one binding.
matches(keybind, modifiers, editor, event) ==
  /\ keybind.modifiers = modifiers
  /\ keybind.key = toLowerCaseWord(event.key)
  /\ condition(keybind.scope, editor, event)

\* Mutant: the notifications are sent before the action is run.
fire_EmitBeforeAction(keybind, event, map) ==
  LET keyId == entryKeyOf(keybind.modifiers, keybind.key)
  IN (IF keybind.preventDefault THEN <<preventDefault(<<keybind>>, <<event>>, map)>> ELSE << >>)
     \o <<trigger(<<eventName, ":emit">>, <<keybind>>, <<event>>, map),
          trigger(<<eventName, ":emit:">> \o keyId, <<keybind>>, <<event>>, map),
          invoke(<<keybind>>, <<event>>, map)>>

\* The body of the forEach callback for one matching binding.
fire(keybind, event, map) ==
  LET keyId == entryKeyOf(keybind.modifiers, keybind.key)
  IN (IF keybind.preventDefault THEN <<preventDefault(<<keybind>>, <<event>>, map)>> ELSE << >>)
     \o <<invoke(<<keybind>>, <<event>>, map),
          trigger(<<eventName, ":emit">>, <<keybind>>, <<event>>, map),
          trigger(<<eventName, ":emit:">> \o keyId, <<keybind>>, <<event>>, map)>>

RECURSIVE forEachKeybind(_, _, _, _, _)
\* keybindsMap.forEach from entry i on: the effects, in order.
forEachKeybind(map, i, modifiers, editor, event) ==
  IF i > Len(map) THEN << >>
  ELSE (IF matches(map[i].v, modifiers, editor, event)
        THEN fire(map[i].v, event, map)
        ELSE << >>)
       \o forEachKeybind(map, i + 1, modifiers, editor, event)

keydownListener(map, editor, event) ==
  LET modifiers == formattedModifiersFrom(event)
  IN forEachKeybind(map, 1, modifiers, editor, event)

(***************************************************************************)
(* The same listener when a handler calls back into the registry.          *)
(* Map.prototype.forEach reads the entry list afresh after each callback:   *)
(* an entry deleted ahead of the cursor is skipped, an entry appended       *)
(* during the pass is visited, a deleted and re-added key sits at the end.  *)
(***************************************************************************)
\* The combination text a callback passes to setKeyBind to register the
\* combination of its own binding again.
combinationOf(keybind) ==
  (IF keybind.modifiers = << >> THEN << >> ELSE keybind.modifiers \o <<keySep>>)
    \o tokenAtoms(keybind.key)

\* keybind.handler(editor) or editor.runCommand(keybind.handler):
\* [map: the registry afterwards, events: the notifications it caused,
\*  deleted: the storage keys it deleted].  The callback "rebind" calls
\* removeKeyBind on its own storage key, then setKeyBind on its own
\* combination with itself as handler; every other handler leaves the
\* registry alone.
handlerCall(keybind, map) ==
  IF keybind.handler.id = "rebind"
  THEN LET keyId == entryKeyOf(keybind.modifiers, keybind.key)
           removed == removeKeyBind(map, keyId)
           added == setKeyBind(removed.map, combinationOf(keybind), keybind.handler,
                               keybind.scope, keybind.preventDefault)
       IN [map |-> added.map,
           events |-> removed.events \o added.events,
           deleted |-> IF removed.ret THEN {keyId} ELSE {}]
  ELSE [map |-> map, events |-> << >>, deleted |-> {}]

RECURSIVE forEachReentrant(_, _, _, _, _, _, _)
\* keybindsMap.forEach from entry i on, the registry changing under it, after
\* the effects evs of the entries before:
\* [map: the registry at the end, events: the effects in order,
\*  completed: FALSE when the pass fires a second time from the same
\*  registry and cursor, from where it repeats itself without end; the
\*  effects are then those up to that second firing].
forEachReentrant(map, i, modifiers, editor, event, seen, evs) ==
  IF i > Len(map) THEN [map |-> map, events |-> evs, completed |-> TRUE]
  ELSE IF matches(map[i].v, modifiers, editor, event)
  THEN LET keybind == map[i].v
           keyId == entryKeyOf(keybind.modifiers, keybind.key)
           called == handlerCall(keybind, map)
           cursor == i + 1 - Cardinality({p \in 1..i : map[p].k \in called.deleted})
           fired == evs
                    \o (IF keybind.preventDefault
                        THEN <<preventDefault(<<keybind>>, <<event>>, map)>> ELSE << >>)
                    \o <<invoke(<<keybind>>, <<event>>, map)>>
                    \o called.events
                    \o <<trigger(<<eventName, ":emit">>, <<keybind>>, <<event>>, called.map),
                         trigger(<<eventName, ":emit:">> \o keyId, <<keybind>>, <<event>>,
                                 called.map)>>
       IN IF <<map, i>> \in seen
          THEN [map |-> called.map, events |-> fired, completed |-> FALSE]
          ELSE forEachReentrant(called.map, cursor, modifiers, editor, event,
                                seen \cup {<<map, i>>}, fired)
  ELSE forEachReentrant(map, i + 1, modifiers, editor, event, seen, evs)

keydownListenerReentrant(map, editor, event) ==
  LET modifiers == formattedModifiersFrom(event)
  IN forEachReentrant(map, 1, modifiers, editor, event, {}, << >>)

(***************************************************************************)
(* Inputs                                                                  *)
(***************************************************************************)
\* Combination strings callers pass to setKeyBind.
Combos ==
  { << >>,                                  \* ""
    <<"+">>,                                \* "+"
    <<"d">>,
    <<"Ctrl", "+", "D">>,
    <<"ctrl", "+", "shift", "+", "d">>,
    <<"shift", "+", "ctrl", "+", "d">>,
    <<"ctrl", "+", "ctrl", "+", "d">>,
    <<"meta", "+", "alt", "+", "d">>,
    <<"ctrl", "+", " ">>,                   \* the space bar: event.key is " "
    <<"FOO", "+", "d">>,
    <<"ctrl", "+", "foo", "+", "d">> }

\* Strings callers pass to removeKeyBind: the combinations as written and the
\* storage keys the registry can hold.
RemoveKeys == Combos \cup { <<"+", "d">>, <<"ctrl", "+", "d">> }

\* The combinations registered while keyboard events are dispatched.
DispatchCombos ==
  { <<"d">>,
    <<"Ctrl", "+", "Shift", "+", "D">>,
    <<"shift", "+", "ctrl", "+", "d">>,
    <<"foo", "+", "d">> }

\* The strings passed to removeKeyBind while keyboard events are dispatched.
DispatchRemoveKeys ==
  { <<"d">>,
    <<"+", "d">>,
    <<"ctrl", "+", "shift", "+", "d">>,
    <<"shift", "+", "ctrl", "+", "d">> }

cmdOpenSettings == [type |-> "string", id |-> "open-settings"]

runBold == [type |-> "function", id |-> "bold"]

\* A callback that removes its own binding and registers it again.
rebind == [type |-> "function", id |-> "rebind"]

\* (handler, scope, preventDefault) of a registration.
BindArgs ==
  { [handler |-> cmdOpenSettings, scope |-> "GLOBAL", preventDefault |-> TRUE],
    [handler |-> runBold, scope |-> "GLOBAL_NO_TEXT_EDIT", preventDefault |-> TRUE],
    [handler |-> runBold, scope |-> "TEXT_EDIT", preventDefault |-> FALSE],
    [handler |-> cmdOpenSettings, scope |-> "COMPONENT_SELECTION", preventDefault |-> FALSE] }

\* The registrations of the registry-only runs: setKeyBind and removeKeyBind
\* store the three fields and never read them.
RegistryArgs == {a \in BindArgs : a.scope \in {"GLOBAL", "TEXT_EDIT"}}

\* The registrations made while handlers call back into the registry.
ReentrantCombos == { <<"d">>, <<"ctrl", "+", "d">>, <<"ctrl", "+", "shift", "+", "d">> }

ReentrantArgs ==
  { [handler |-> rebind, scope |-> "GLOBAL", preventDefault |-> TRUE],
    [handler |-> rebind, scope |-> "TEXT_EDIT", preventDefault |-> FALSE],
    [handler |-> cmdOpenSettings, scope |-> "GLOBAL", preventDefault |-> FALSE] }

ReentrantRemoveKeys == { <<"+", "d">>, <<"ctrl", "+", "d">> }

Editors == [editing : {"undefined", "null", "component"}, selected : {"undefined", "component"}]

\* keydown events of the D key: event.key is "D" while shift is held.
KeyboardEvents ==
  { [metaKey |-> "meta" \in p, ctrlKey |-> "ctrl" \in p, altKey |-> "alt" \in p,
     shiftKey |-> "shift" \in p, key |-> IF "shift" \in p THEN "D" ELSE "d", target |-> t] :
    p \in {{}, {"ctrl"}, {"shift"}, {"ctrl", "shift"}, {"meta", "alt"}},
    t \in {"null", "DIV", "INPUT", "TEXTAREA"} }

\* The host states and keydown events met while handlers call back into the
\* registry: text being edited or not, keys pressed outside a text input.
ReentrantEditors == {e \in Editors : e.editing # "null" /\ e.selected = "undefined"}

ReentrantEvents == {e \in KeyboardEvents : e.target = "DIV"}

(***************************************************************************)
(* State machine                                                           *)
(*   keybindsMap  the registry                                             *)
(*   lastOp       the last call and what it returned or threw;             *)
(*                completed is FALSE when the call never returns           *)
(*   events       the host effects of the last call, in order              *)
(***************************************************************************)
NoOp ==
  [op |-> "init", keys |-> << >>, args |-> << >>, editor |-> << >>, event |-> << >>,
   retKeyBind |-> << >>, retBool |-> FALSE, thrown |-> << >>, completed |-> TRUE]

Init ==
  /\ keybindsMap = << >>
  /\ lastOp = NoOp
  /\ events = << >>

SetKeyBind(keys, a) ==
  LET r == setKeyBind(keybindsMap, keys, a.handler, a.scope, a.preventDefault)
  IN /\ lastOp.completed
     /\ Len(r.map) <= MaxBinds
     /\ keybindsMap' = r.map
     /\ events' = r.events
     /\ lastOp' = [NoOp EXCEPT !.op = "setKeyBind", !.keys = keys, !.args = <<a>>,
                               !.retKeyBind = r.ret, !.thrown = r.thrown]

RemoveKeyBind(keys) ==
  LET r == removeKeyBind(keybindsMap, keys)
  IN /\ lastOp.completed
     /\ keybindsMap' = r.map
     /\ events' = r.events
     /\ lastOp' = [NoOp EXCEPT !.op = "removeKeyBind", !.keys = keys, !.retBool = r.ret]

Keydown(editor, event) ==
  /\ events' = keydownListener(keybindsMap, editor, event)
  /\ lastOp' = [NoOp EXCEPT !.op = "keydown", !.editor = <<editor>>, !.event = <<event>>]
  /\ UNCHANGED keybindsMap

\* The whole program: registrations, removals and keyboard events.
Next ==
  \/ \E keys \in DispatchCombos, a \in BindArgs : SetKeyBind(keys, a)
  \/ \E keys \in DispatchRemoveKeys : RemoveKeyBind(keys)
  \/ \E editor \in Editors, event \in KeyboardEvents : Keydown(editor, event)

Spec == Init /\ [][Next]_vars

\* The registry alone, over the wider set of combinations: the calls of
\* setKeyBind and removeKeyBind with no keyboard event in between.
NextRegistry ==
  \/ \E keys \in Combos, a \in RegistryArgs : SetKeyBind(keys, a)
  \/ \E keys \in RemoveKeys : RemoveKeyBind(keys)

SpecRegistry == Init /\ [][NextRegistry]_vars

\* A keydown event while handlers may call removeKeyBind and setKeyBind: the
\* whole pass is one step.  A pass that never ends leaves the program in it.
KeydownReentrant(editor, event) ==
  LET r == keydownListenerReentrant(keybindsMap, editor, event)
  IN /\ lastOp.completed
     /\ keybindsMap' = r.map
     /\ events' = r.events
     /\ lastOp' = [NoOp EXCEPT !.op = "keydown", !.editor = <<editor>>, !.event = <<event>>,
                               !.completed = r.completed]

NextReentrant ==
  \/ \E keys \in ReentrantCombos, a \in ReentrantArgs : SetKeyBind(keys, a)
  \/ \E keys \in ReentrantRemoveKeys : RemoveKeyBind(keys)
  \/ \E editor \in ReentrantEditors, event \in ReentrantEvents :
       KeydownReentrant(editor, event)

SpecReentrant == Init /\ [][NextReentrant]_vars

(***************************************************************************)
(* Vocabulary of the properties                                            *)
(***************************************************************************)
IsSet == lastOp.op = "setKeyBind"

SetOk == IsSet /\ lastOp.thrown = << >>

IsRemove == lastOp.op = "removeKeyBind"

IsKeydown == lastOp.op = "keydown"

\* The tokens of a combination as register reads them.
TokensOf(keys) == split(toLowerCase(keys))

ModifierTokensOf(keys) == popped(TokensOf(keys))

KeyTokenOf(keys) == TokensOf(keys)[Len(TokensOf(keys))]

\* The modifiers a stored modifier string names.
ModifierSetOf(modifiers) == Range(split(modifiers)) \ {""}

\* The keyboard event whose pressed-modifier flags are exactly S.
EventPressing(S, key) ==
  [metaKey |-> "meta" \in S, ctrlKey |-> "ctrl" \in S, altKey |-> "alt" \in S,
   shiftKey |-> "shift" \in S, key |-> key, target |-> "DIV"]

\* Positions in an effect log at which an action was invoked.
Invocations(evs) == {j \in DOMAIN evs : evs[j].eff \in {"runCommand", "callback"}}

TriggerNames(evs) == [j \in DOMAIN evs |-> evs[j].name]

DefaultPrevented(evs) == \E j \in DOMAIN evs : evs[j].eff = "preventDefault"

\* The storage key of the (modifiers, key) pair of an event.
EventEntryKey(event) == entryKeyOf(formattedModifiersFrom(event), toLowerCaseWord(event.key))

\* C1: order-independence law.  Whenever register succeeds on a combination
\* whose modifier tokens are distinct members of {meta, ctrl, alt, shift}, in
\* any order, the modifier string it stores equals the modifier string derived
\* from a keyboard event whose pressed flags are exactly those modifiers.
C1_OrderIndependence ==
  (SetOk /\ Cardinality(Range(ModifierTokensOf(lastOp.keys))) = Len(ModifierTokensOf(lastOp.keys)))
    => lastOp.retKeyBind[1].modifiers
         = formattedModifiersFrom(EventPressing(Range(ModifierTokensOf(lastOp.keys)), "d"))

\* Two combinations name the same modifier set and the same key.
SameCombination(k1, k2) ==
  /\ Range(ModifierTokensOf(k1)) = Range(ModifierTokensOf(k2))
  /\ KeyTokenOf(k1) = KeyTokenOf(k2)

\* Registry entries bound to the combination `keys` (its modifier set, its key).
EntriesFor(map, keys) ==
  {i \in DOMAIN map : /\ ModifierSetOf(map[i].v.modifiers) = Range(ModifierTokensOf(keys))
                      /\ map[i].v.key = KeyTokenOf(keys)}

\* C2: two successive successful registers of the same modifier set and key,
\* in whatever token order, write the same storage key: the second leaves the
\* number of entries unchanged, and the single entry of that combination holds
\* the second binding.
C2_SameStorageKey ==
  [][(SetOk /\ SetOk' /\ SameCombination(lastOp.keys, lastOp'.keys))
       => /\ Len(keybindsMap') = Len(keybindsMap)
          /\ \A i \in EntriesFor(keybindsMap', lastOp'.keys) :
               keybindsMap'[i].v = lastOp'.retKeyBind[1]
          /\ Cardinality(EntriesFor(keybindsMap', lastOp'.keys)) = 1]_vars

\* C3: dispatch.  After a keydown, every registered binding whose (modifiers,
\* key) pair equals the event's pair (key lowercased) and whose scope condition
\* is true was invoked exactly once, and the event's default was suppressed
\* exactly if that binding's preventDefault is set.
C3_Dispatch ==
  IsKeydown =>
    \A i \in DOMAIN keybindsMap :
      LET kb == keybindsMap[i].v
          ev == lastOp.event[1]
      IN (/\ kb.modifiers = formattedModifiersFrom(ev)
          /\ kb.key = toLowerCaseWord(ev.key)
          /\ condition(kb.scope, lastOp.editor[1], ev))
         => /\ Cardinality({j \in Invocations(events) :
                              /\ events[j].keybind = <<kb>>
                              /\ events[j].name = <<kb.handler.id>>}) = 1
            /\ Cardinality(Invocations(events)) = 1
            /\ DefaultPrevented(events) <=> kb.preventDefault

\* A keydown of shift+ctrl+D reached a binding registered as ctrl+shift+d.
C3_Witness ==
  /\ IsKeydown
  /\ lastOp.event[1].key = "D"
  /\ Cardinality(Invocations(events)) = 1
  /\ DefaultPrevented(events)

\* The host reports an active text-edit target.
HostEditsText(editor) == editor.editing = "component"

\* C4: scope gating.  Every action invoked by a keydown belongs to a binding
\* whose scope condition is true for the host state and event of that keydown;
\* a GLOBAL_NO_TEXT_EDIT binding whose pair matches the event is not invoked
\* while the host reports an active text-edit target, and is invoked while the
\* host reports none and the event target is not a text input.
C4_ScopeGating ==
  IsKeydown =>
    LET ev == lastOp.event[1]
        ed == lastOp.editor[1]
        invoked(kb) == \E j \in Invocations(events) : events[j].keybind = <<kb>>
    IN /\ \A j \in Invocations(events) : condition(events[j].keybind[1].scope, ed, ev)
       /\ \A i \in DOMAIN keybindsMap :
            LET kb == keybindsMap[i].v
            IN (/\ kb.scope = "GLOBAL_NO_TEXT_EDIT"
                /\ keybindsMap[i].k = EventEntryKey(ev))
               => /\ HostEditsText(ed) => ~invoked(kb)
                  /\ (~HostEditsText(ed) /\ ev.target \notin {"INPUT", "TEXTAREA"})
                       => invoked(kb)

\* A matching GLOBAL_NO_TEXT_EDIT binding was held back by text editing.
C4_Witness ==
  /\ IsKeydown
  /\ HostEditsText(lastOp.editor[1])
  /\ \E i \in DOMAIN keybindsMap :
       /\ keybindsMap[i].v.scope = "GLOBAL_NO_TEXT_EDIT"
       /\ keybindsMap[i].k = EventEntryKey(lastOp.event[1])
  /\ events = << >>

\* C5: remove on a present storage key returns true, emits exactly one
\* `remove` notification and deletes the entry; a storage key that is absent
\* stays absent until a register computes it; and a keydown whose (modifiers,
\* key) pair has no entry under its storage key invokes no action.  Together:
\* from the removal until the key is registered again, no matching keydown
\* invokes the removed binding's action.
C5_RemovePresent ==
  [][/\ (lastOp'.op = "removeKeyBind" /\ mapHas(keybindsMap, lastOp'.keys))
          => /\ lastOp'.retBool
             /\ TriggerNames(events') = <<(<<eventName, ":remove">>)>>
             /\ ~mapHas(keybindsMap', lastOp'.keys)
             /\ LET b == mapGet(keybindsMap, lastOp'.keys)
                IN entryKeyOf(b.modifiers, b.key) = lastOp'.keys
     /\ \A k \in mapKeys(keybindsMap') \ mapKeys(keybindsMap) :
          /\ lastOp'.op = "setKeyBind"
          /\ lastOp'.thrown = << >>
          /\ entryKeyOf(lastOp'.retKeyBind[1].modifiers, lastOp'.retKeyBind[1].key) = k
     /\ (lastOp'.op = "keydown" /\ ~mapHas(keybindsMap, EventEntryKey(lastOp'.event[1])))
          => Invocations(events') = {}]_vars

\* An entry was removed while another stayed.
C5_Witness ==
  /\ IsRemove
  /\ lastOp.retBool
  /\ ~mapHas(keybindsMap, lastOp.keys)
  /\ keybindsMap # << >>
  /\ Len(events) = 1

\* C6: remove on a storage key that is not in the registry returns false,
\* emits no notification, throws nothing and leaves the registry unchanged.
C6_RemoveAbsent ==
  [][(lastOp'.op = "removeKeyBind" /\ ~mapHas(keybindsMap, lastOp'.keys))
       => /\ ~lastOp'.retBool
          /\ lastOp'.thrown = << >>
          /\ events' = << >>
          /\ keybindsMap' = keybindsMap]_vars

\* remove("d") found nothing although "d" is registered (under "+d").
C6_Witness ==
  /\ IsRemove
  /\ ~lastOp.retBool
  /\ lastOp.keys = <<"d">>
  /\ mapHas(keybindsMap, <<"+", "d">>)
  /\ events = << >>

\* C7: every successful register emits exactly one lifecycle notification,
\* `add` if and only if the computed storage key was absent immediately before
\* the call and `update` otherwise, and afterwards the registry maps that
\* storage key to the new binding.
C7_AddOrUpdate ==
  [][(lastOp'.op = "setKeyBind" /\ lastOp'.thrown = << >>)
       => LET b == lastOp'.retKeyBind[1]
              k == entryKeyOf(b.modifiers, b.key)
          IN /\ Len(events') = 1
             /\ events'[1].eff = "trigger"
             /\ events'[1].name = IF mapHas(keybindsMap, k)
                                  THEN <<eventName, ":update">>
                                  ELSE <<eventName, ":add">>
             /\ mapHas(keybindsMap', k)
             /\ mapGet(keybindsMap', k) = b
             /\ b.handler = lastOp'.args[1].handler
             /\ b.scope = lastOp'.args[1].scope
             /\ b.preventDefault = lastOp'.args[1].preventDefault]_vars

\* A registration replaced the binding of a present storage key.
C7_Witness ==
  /\ SetOk
  /\ TriggerNames(events) = <<(<<eventName, ":update">>)>>
  /\ Len(keybindsMap) = 2
  /\ keybindsMap[1].v = lastOp.retKeyBind[1]

\* C8: register with "" or "+" fails with the invalid-keybinding error
\* carrying the offending string; the registry is unchanged and nothing is
\* notified.
C8_EmptyCombination ==
  [][(lastOp'.op = "setKeyBind" /\ lastOp'.keys \in {<< >>, <<keySep>>})
       => /\ lastOp'.thrown = <<[kind |-> "InvalidKeybind", arg |-> lastOp'.keys]>>
          /\ keybindsMap' = keybindsMap
          /\ events' = << >>]_vars

\* Positions of the modifier tokens that are none of meta, ctrl, alt, shift.
InvalidModifierPositions(keys) ==
  {i \in DOMAIN ModifierTokensOf(keys) : ModifierTokensOf(keys)[i] \notin Range(KeyModifiers)}

\* C9: register with a combination in which a token before the last is not
\* one of meta/ctrl/alt/shift (letter case ignored) fails with the
\* invalid-modifier error naming the first such token, returns no binding,
\* leaves the registry unchanged and emits neither `add` nor `update`.
C9_InvalidModifier ==
  [][(lastOp'.op = "setKeyBind" /\ InvalidModifierPositions(lastOp'.keys) # {})
       => LET bad == InvalidModifierPositions(lastOp'.keys)
              first == CHOOSE i \in bad : \A j \in bad : i <= j
          IN /\ lastOp'.thrown
                  = <<[kind |-> "InvalidModifier",
                       arg |-> tokenAtoms(ModifierTokensOf(lastOp'.keys)[first])]>>
             /\ lastOp'.retKeyBind = << >>
             /\ keybindsMap' = keybindsMap
             /\ events' = << >>]_vars

\* "ctrl+foo+d" was rejected on a registry that holds a binding.
C9_Witness ==
  /\ IsSet
  /\ lastOp.keys = <<"ctrl", "+", "foo", "+", "d">>
  /\ lastOp.thrown = <<[kind |-> "InvalidModifier", arg |-> <<"foo">>]>>
  /\ keybindsMap # << >>
  /\ events = << >>

\* Position of a modifier in the fixed order meta, ctrl, alt, shift.
PriorityOf(m) == CHOOSE i \in DOMAIN KeyModifiers : KeyModifiers[i] = m

\* A modifier string lists members of the fixed set, none twice, in the fixed
\* order.
IsCanonical(modifiers) ==
  LET toks == IF modifiers = << >> THEN << >> ELSE split(modifiers)
  IN /\ \A i \in DOMAIN toks : toks[i] \in Range(KeyModifiers)
     /\ \A i, j \in DOMAIN toks : i < j => PriorityOf(toks[i]) < PriorityOf(toks[j])

\* C10: the modifiers string of every binding in the registry contains only
\* modifiers of {meta, ctrl, alt, shift}, none twice, in the order meta, ctrl,
\* alt, shift.
C10_CanonicalModifiers ==
  \A i \in DOMAIN keybindsMap : IsCanonical(keybindsMap[i].v.modifiers)


\* C11: one dispatch of one keydown event invokes at most one binding's
\* action, whatever registry register and remove have built.
C11_AtMostOneAction ==
  IsKeydown => Cardinality(Invocations(events)) <= 1

\* A keydown fired one of two registered bindings of the D key.
C11_Witness ==
  /\ IsKeydown
  /\ Len(keybindsMap) = 2
  /\ \A i \in DOMAIN keybindsMap : keybindsMap[i].v.key = toLowerCaseWord(lastOp.event[1].key)
  /\ \A i \in DOMAIN keybindsMap : condition(keybindsMap[i].v.scope, lastOp.editor[1], lastOp.event[1])
  /\ Cardinality(Invocations(events)) = 1


\* A token that has a whitespace character in it.
ContainsWhitespace(token) == token \in {" "}

\* C12 as stated: the key of every binding in the registry is lowercase and a
\* single token, with no separator character and no whitespace in it.
C12_KeySingleToken ==
  \A i \in DOMAIN keybindsMap :
    LET key == keybindsMap[i].v.key
    IN /\ toLowerCaseWord(key) = key
       /\ key # keySep
       /\ ~ContainsWhitespace(key)

\* C12 as amended: the key of every binding in the registry is lowercase and
\* has no separator character in it.
C12_KeyLowercaseNoSeparator ==
  \A i \in DOMAIN keybindsMap :
    LET key == keybindsMap[i].v.key
    IN /\ toLowerCaseWord(key) = key
       /\ key # keySep

\* "Ctrl+D" is stored with key "d", next to the binding of the space bar.
C12_Witness ==
  /\ SetOk
  /\ lastOp.keys = <<"Ctrl", "+", "D">>
  /\ lastOp.retKeyBind[1].key = "d"
  /\ \E i \in DOMAIN keybindsMap : ContainsWhitespace(keybindsMap[i].v.key)


\* The action of binding b was invoked by the last call.
Fired(b) == \E j \in Invocations(events) : events[j].keybind = <<b>>

\* The event comes from a plain text input or a textarea.
InTextInput(event) == event.target \in {"INPUT", "TEXTAREA"}

\* C13: for every host state and keyboard event, a binding of the pressed
\* combination with scope TEXT_EDIT is fired exactly when the host edits rich
\* text or the event target is an INPUT or TEXTAREA element, one with scope
\* GLOBAL_NO_TEXT_EDIT exactly when that is false, and one with scope GLOBAL
\* always.
C13_ScopeTruth ==
  IsKeydown =>
    LET editor == lastOp.editor[1]
        event == lastOp.event[1]
        textEdit == HostEditsText(editor) \/ InTextInput(event)
    IN \A i \in DOMAIN keybindsMap :
         LET b == keybindsMap[i].v
         IN keybindsMap[i].k = EventEntryKey(event) =>
              /\ b.scope = "TEXT_EDIT" => (Fired(b) <=> textEdit)
              /\ b.scope = "GLOBAL_NO_TEXT_EDIT" => (Fired(b) <=> ~textEdit)
              /\ b.scope = "GLOBAL" => Fired(b)

\* A TEXT_EDIT binding fired for a key pressed in a textarea while the host
\* reports no rich-text edit target.
C13_Witness ==
  /\ IsKeydown
  /\ lastOp.editor[1].editing = "null"
  /\ lastOp.event[1].target = "TEXTAREA"
  /\ \E i \in DOMAIN keybindsMap :
       /\ keybindsMap[i].v.scope = "TEXT_EDIT"
       /\ Fired(keybindsMap[i].v)


\* C14: the effects of one dispatch for the matched binding are, in this
\* order and with nothing else: the default suppression if preventDefault is
\* set, the action, one keybind:emit notification and one
\* keybind:emit:<storage key> notification, both notifications carrying the
\* matched binding and the event.
C14_EffectOrder ==
  IsKeydown =>
    LET editor == lastOp.editor[1]
        event == lastOp.event[1]
    IN \A i \in DOMAIN keybindsMap :
         LET b == keybindsMap[i].v
             off == IF b.preventDefault THEN 1 ELSE 0
         IN (keybindsMap[i].k = EventEntryKey(event) /\ condition(b.scope, editor, event)) =>
              /\ Len(events) = off + 3
              /\ b.preventDefault => events[1].eff = "preventDefault"
              /\ events[off + 1].eff = (IF b.handler.type = "string" THEN "runCommand" ELSE "callback")
              /\ events[off + 1].name = <<b.handler.id>>
              /\ events[off + 2].eff = "trigger"
              /\ events[off + 2].name = <<eventName, ":emit">>
              /\ events[off + 3].eff = "trigger"
              /\ events[off + 3].name = <<eventName, ":emit:">> \o keybindsMap[i].k
              /\ \A j \in {off + 2, off + 3} :
                   events[j].keybind = <<b>> /\ events[j].event = <<event>>

\* A dispatch that suppressed the default, ran a command and sent both
\* notifications.
C14_Witness ==
  /\ IsKeydown
  /\ Len(events) = 4
  /\ events[1].eff = "preventDefault"
  /\ events[2].eff = "runCommand"
  /\ events[4].name = <<eventName, ":emit:", "ctrl", "+", "shift", "+", "d">>


\* The action of binding b was invoked in the effect log evs.
FiredIn(evs, b) == \E j \in Invocations(evs) : evs[j].keybind = <<b>>

\* Bindings of the registry `map` with the (modifiers, key) pair of b and
\* another scope.
OtherScopeBindings(map, b) ==
  {map[i].v : i \in {j \in DOMAIN map : /\ map[j].v.modifiers = b.modifiers
                                         /\ map[j].v.key = b.key
                                         /\ map[j].v.scope # b.scope}}

\* The keydown event is of the (modifiers, key) pair of b.
EventOf(event, b) ==
  /\ formattedModifiersFrom(event) = b.modifiers
  /\ toLowerCaseWord(event.key) = b.key

\* C15 as stated: once a second binding is registered for the (modifiers, key)
\* pair of a registered binding of another scope, a keydown event of that pair
\* for which both scope conditions are true fires the actions of both.
C15_BothFire ==
  [][(SetOk /\ lastOp'.op = "keydown")
       => LET b2 == lastOp.retKeyBind[1]
              editor == lastOp'.editor[1]
              event == lastOp'.event[1]
          IN \A b1 \in OtherScopeBindings(events[1].registry, b2) :
               (/\ EventOf(event, b2)
                /\ condition(b1.scope, editor, event)
                /\ condition(b2.scope, editor, event))
                 => FiredIn(events', b1) /\ FiredIn(events', b2)]_vars

\* C15 as amended: the second registration replaces the first, and the
\* keydown event fires the action of the second binding only.
C15_LatestOnlyFires ==
  [][(SetOk /\ lastOp'.op = "keydown")
       => LET b2 == lastOp.retKeyBind[1]
              editor == lastOp'.editor[1]
              event == lastOp'.event[1]
          IN \A b1 \in OtherScopeBindings(events[1].registry, b2) :
               /\ \A i \in DOMAIN keybindsMap : keybindsMap[i].v # b1
               /\ (/\ EventOf(event, b2)
                   /\ condition(b1.scope, editor, event)
                   /\ condition(b2.scope, editor, event))
                    => /\ FiredIn(events', b2)
                       /\ ~FiredIn(events', b1)
                       /\ Cardinality(Invocations(events')) = 1]_vars

\* A binding was just registered over one of the same (modifiers, key) pair
\* and another scope, and a keyboard event of that pair makes both scope
\* conditions true.
C15_Witness ==
  /\ SetOk
  /\ \E b1 \in OtherScopeBindings(events[1].registry, lastOp.retKeyBind[1]) :
       \E editor \in Editors, event \in KeyboardEvents :
         /\ EventOf(event, lastOp.retKeyBind[1])
         /\ condition(b1.scope, editor, event)
         /\ condition(lastOp.retKeyBind[1].scope, editor, event)


\* A combination text in canonical form: lowercase, with a key, its modifiers
\* members of the fixed set, none twice, in the order meta, ctrl, alt, shift.
IsCanonicalText(keys) ==
  /\ toLowerCase(keys) = keys
  /\ KeyTokenOf(keys) # ""
  /\ InvalidModifierPositions(keys) = {}
  /\ IsCanonical(join(ModifierTokensOf(keys)))

\* C16: round trip.  For a combination text c in canonical form, with or
\* without modifiers, register(c) on a registry with no entry for c followed
\* by remove(c) returns true and restores the registry to its state before
\* the register.
C16_RoundTrip ==
  [][(/\ SetOk
      /\ IsCanonicalText(lastOp.keys)
      /\ events[1].name = <<eventName, ":add">>
      /\ lastOp'.op = "removeKeyBind"
      /\ lastOp'.keys = lastOp.keys)
       => /\ lastOp'.retBool
          /\ keybindsMap' = events[1].registry]_vars

\* C18: when a lifecycle notification is delivered, the registry already
\* reflects the operation it announces: on add and update the storage key maps
\* to the new binding, on remove the storage key is absent.
C18_NotificationTiming ==
  \A j \in DOMAIN events :
    /\ (IsSet /\ events[j].name \in {<<eventName, ":add">>, <<eventName, ":update">>})
         => LET b == lastOp.retKeyBind[1]
                k == entryKeyOf(b.modifiers, b.key)
            IN /\ mapHas(events[j].registry, k)
               /\ mapGet(events[j].registry, k) = b
    /\ (IsRemove /\ events[j].name = <<eventName, ":remove">>)
         => ~mapHas(events[j].registry, lastOp.keys)


\* Bindings of the registry `map` that match the (modifiers, key) pair of the
\* event and whose scope condition is true.
Candidates(map, editor, event) ==
  {i \in DOMAIN map : /\ EventOf(event, map[i].v)
                      /\ condition(map[i].v.scope, editor, event)}

\* C19: dispatch frame.  A keydown event for which no binding both matches the
\* (modifiers, key) pair and has a true scope condition causes no default
\* suppression, no action invocation and no notification; and dispatch never
\* adds, replaces or removes a registry entry.
C19_DispatchFrame ==
  [][lastOp'.op = "keydown"
       => /\ keybindsMap' = keybindsMap
          /\ Candidates(keybindsMap, lastOp'.editor[1], lastOp'.event[1]) = {}
               => events' = << >>]_vars

\* A keydown of a bound combination outside text editing left a registry of
\* two bindings, the TEXT_EDIT binding of that combination among them, without
\* any effect.
C19_Witness ==
  /\ IsKeydown
  /\ Len(keybindsMap) = 2
  /\ lastOp.event[1].target = "DIV"
  /\ ~HostEditsText(lastOp.editor[1])
  /\ \E i \in DOMAIN keybindsMap :
       /\ keybindsMap[i].v.scope = "TEXT_EDIT"
       /\ EventOf(lastOp.event[1], keybindsMap[i].v)
  /\ events = << >>


\* C20: key/value consistency.  In every state reachable by register and
\* remove, each registry entry (k, b) has k = b.modifiers + separator + b.key,
\* and two distinct entries never have the same (modifiers, key) pair.
C20_KeyValueConsistency ==
  /\ \A i \in DOMAIN keybindsMap :
       LET b == keybindsMap[i].v
       IN keybindsMap[i].k
            = b.modifiers \o <<keySep>> \o (IF b.key = "" THEN << >> ELSE <<b.key>>)
  /\ \A i, j \in DOMAIN keybindsMap :
       (/\ keybindsMap[i].v.modifiers = keybindsMap[j].v.modifiers
        /\ keybindsMap[i].v.key = keybindsMap[j].v.key) => i = j

\* The registry holds the D key twice: alone and with modifiers.
C20_Witness ==
  /\ Len(keybindsMap) = 2
  /\ \A i \in DOMAIN keybindsMap : keybindsMap[i].v.key = "d"
  /\ \E i \in DOMAIN keybindsMap : keybindsMap[i].v.modifiers = << >>
  /\ \E i \in DOMAIN keybindsMap : keybindsMap[i].v.modifiers # << >>


\* Positions in an effect log at which a registration was announced.
Registrations(evs) ==
  {j \in DOMAIN evs : evs[j].name \in {<<eventName, ":add">>, <<eventName, ":update">>}}

\* C17: re-entrancy.  One dispatch of one keydown event terminates and invokes
\* at most one action even when the invoked action removes its own storage key
\* and registers it again during the pass, and a binding inserted by an action
\* during the pass is not fired by the same event.
C17_Reentrancy ==
  IsKeydown =>
    /\ lastOp.completed
    /\ Cardinality(Invocations(events)) <= 1
    /\ \A j \in Invocations(events) : \A p \in Registrations(events) : j < p

====
